---- MODULE Spec2Model ----
(***************************************************************************)
(* Model of src/cudpp_hash/debugging.cu: the debugging / statistics layer  *)
(* of the CUDA cuckoo hash table.                                          *)
(*                                                                         *)
(*   take_hash_function_statistics   the kernel, one thread per key        *)
(*   TakeHashFunctionStatistics      host: launch + two histograms         *)
(*   OutputRetrievalStatistics       host: dense probe histogram           *)
(*   OutputBuildStatistics           host: sort, sum, median, max, RLE     *)
(*   PrintStashContents              host: dump of the occupied stash       *)
(*                                                                         *)
(* A host function is entered by a Call action that fixes its arguments,   *)
(* runs in one or more actions, and leaves by Return.  What PrintMessage   *)
(* receives is appended to `out`.                                          *)
(***************************************************************************)
EXTENDS Integers, Sequences, FiniteSets, TLC

VARIABLES
  build,                  \* compile-time configuration of the build
  kHistogramSize,         \* function-local static of TakeHashFunctionStatistics
  pc,                     \* position of the host thread
  args,                   \* arguments of the host function being executed
  kparams,                \* arguments of the launched kernel
  threads,                \* per device thread: position, loop index, locations[]
  d_num_hashing_in,       \* device array, one counter per slot
  d_num_slots_available,  \* device array, one cell per key
  d_failed,               \* device word *failed
  d_constants_live,       \* d_constants is allocated and not yet freed
  out,                    \* what PrintMessage has received during this call
  fault                   \* undefined behaviour has been executed

vars == <<build, kHistogramSize, pc, args, kparams, threads, d_num_hashing_in,
          d_num_slots_available, d_failed, d_constants_live, out, fault>>

----------------------------------------------------------------------------
(* Sizes.  The C type `unsigned` is modelled with values 0..UINT_MAX and    *)
(* arithmetic modulo UINT_MAX + 1.                                          *)

UINT_MAX == 15
kMaxHashFunctions == 3
kStashSize == 3
kBlockSize == 2
MaxKeys == 2
MaxTableSize == 3
MaxN == 3

Unsigned == 0..UINT_MAX

Wrap(x) == x % (UINT_MAX + 1)

\* What a read past the end of an array may return; when the read is inside
\* the array the value read is used and this choice plays no part.
Garbage(out_of_bounds) == IF out_of_bounds THEN Unsigned ELSE {0}

\* A cell of device memory that cudaMalloc returned and nobody wrote.
Uninit == -1

\* definitions.h: the key of a vacant entry (all bits set).
kKeyEmpty == UINT_MAX

\* definitions.h: an Entry packs the key above the value.
make_entry(key, value) == key * (UINT_MAX + 1) + value

get_key(entry) == entry \div (UINT_MAX + 1)

get_value(entry) == entry % (UINT_MAX + 1)

\* hash_functions.h: multiplier / increment hash in unsigned arithmetic.
hash_function_inner(c, key) == Wrap(c[1] * key + c[2])

\* ComputeGridDim(n) blocks of kBlockSize threads: the threads launched.
GridThreads(n) == ((n + kBlockSize - 1) \div kBlockSize) * kBlockSize

----------------------------------------------------------------------------
(* Sequence helpers.                                                        *)

Range(s) == {s[i] : i \in 1..Len(s)}

Occurrences(s, v) == Cardinality({i \in 1..Len(s) : s[i] = v})

RECURSIVE SeqsUpTo(_, _)
SeqsUpTo(S, n) ==
  IF n = 0 THEN {<<>>}
  ELSE LET shorter == SeqsUpTo(S, n - 1)
       IN  shorter \cup {Append(s, x) : s \in {q \in shorter : Len(q) = n - 1}, x \in S}

SeqsOfLen(S, n) == {s \in SeqsUpTo(S, n) : Len(s) = n}

Zeros(n) == [i \in 1..n |-> 0]

RECURSIVE SumSeq(_)
SumSeq(s) == IF s = <<>> THEN 0 ELSE s[1] + SumSeq(Tail(s))

----------------------------------------------------------------------------
(* The kernel take_hash_function_statistics.                               *)

\* The locations[i] of line 38.
SlotOf(c, key, table_size) == hash_function_inner(c, key) % table_size

\* atomicAdd(mem + addr, 1): one indivisible read-modify-write.
atomicAdd(mem, addr) == [mem EXCEPT ![addr + 1] = Wrap(@ + 1)]

\* Variant: a slot is counted once per key, not once per hash function.
RecordHashingInOncePerKey(mem, locations, loc) ==
  IF loc \in Range(locations) THEN mem ELSE atomicAdd(mem, loc)

\* Lines 40-42: `locations` holds locations[0 .. i-1], loc is locations[i].
RecordHashingIn(mem, locations, loc) == atomicAdd(mem, loc)

\* Variant: a location is compared with its predecessor only.
CountDistinctAdjacent(locations, num_functions) ==
  1 + Cardinality({i \in 1..(num_functions - 1) : locations[i + 1] # locations[i]})

\* Lines 46-58: a location counts when no earlier location equals it.
CountDistinct(locations, num_functions) ==
  1 + Cardinality({i \in 1..(num_functions - 1) :
                     \A j \in 0..(i - 1) : locations[i + 1] # locations[j + 1]})

\* Variant: the flag is assigned the outcome of this key.
FailedAfterOverwrite(failed, num_slots, num_functions) ==
  IF num_slots # num_functions THEN 1 ELSE 0

\* Lines 64-66: the store to *failed.
FailedAfter(failed, num_slots, num_functions) ==
  IF num_slots # num_functions THEN 1 ELSE failed

\* Every thread of the launched grid has returned.
KernelComplete == \A t \in DOMAIN threads : threads[t].pc = "done"

NoKernel == [keys |-> <<>>, n_entries |-> 0, table_size |-> 0, constants |-> <<>>,
             num_functions |-> 0, slots_ptr |-> FALSE, hashing_ptr |-> FALSE,
             failed_ptr |-> FALSE]

\* The <<<ComputeGridDim(n), kBlockSize>>> launch: every thread at its entry.
Launched(n) == [t \in 1..GridThreads(n) |-> [pc |-> "run", i |-> 0, locations |-> <<>>]]

\* Lines 30-31: a thread beyond the last key returns at once.
KernelReturnEarly(t) ==
  /\ t \in DOMAIN threads
  /\ threads[t].pc = "run"
  /\ t - 1 >= kparams.n_entries
  /\ threads' = [threads EXCEPT ![t].pc = "done"]
  /\ UNCHANGED <<build, kHistogramSize, pc, args, kparams, d_num_hashing_in,
                 d_num_slots_available, d_failed, d_constants_live, out, fault>>

\* Lines 37-43: one iteration of the first loop.  Undefined behaviour: a
\* remainder by table_size = 0, a store past locations[kMaxHashFunctions - 1],
\* a read of constants[] after it was freed.
KernelHash(t) ==
  /\ t \in DOMAIN threads
  /\ threads[t].pc = "run"
  /\ t - 1 < kparams.n_entries
  /\ threads[t].i < kparams.num_functions
  /\ LET i == threads[t].i
         key == kparams.keys[t]
         undefined == \/ kparams.table_size = 0
                      \/ i >= kMaxHashFunctions
                      \/ ~d_constants_live
         loc == IF kparams.table_size = 0 THEN UINT_MAX
                ELSE SlotOf(kparams.constants[i + 1], key, kparams.table_size)
     IN  /\ threads' = [threads EXCEPT ![t].i = i + 1,
                                       ![t].locations = Append(@, loc)]
         /\ d_num_hashing_in' =
              IF kparams.hashing_ptr /\ loc < kparams.table_size
              THEN RecordHashingIn(d_num_hashing_in, threads[t].locations, loc)
              ELSE d_num_hashing_in
         /\ fault' = (fault \/ undefined)
  /\ UNCHANGED <<build, kHistogramSize, pc, args, kparams, d_num_slots_available,
                 d_failed, d_constants_live, out>>

\* Lines 45-66: the distinct count and the two optional stores.
KernelFinish(t) ==
  /\ t \in DOMAIN threads
  /\ threads[t].pc = "run"
  /\ t - 1 < kparams.n_entries
  /\ threads[t].i >= kparams.num_functions
  /\ LET num_slots == CountDistinct(threads[t].locations, kparams.num_functions)
     IN  /\ d_num_slots_available' =
              IF kparams.slots_ptr
              THEN [d_num_slots_available EXCEPT ![t] = num_slots]
              ELSE d_num_slots_available
         /\ d_failed' =
              IF kparams.failed_ptr
              THEN FailedAfter(d_failed, num_slots, kparams.num_functions)
              ELSE d_failed
  /\ threads' = [threads EXCEPT ![t].pc = "done"]
  /\ UNCHANGED <<build, kHistogramSize, pc, args, kparams, d_num_hashing_in,
                 d_constants_live, out, fault>>

----------------------------------------------------------------------------
(* Host-side computations.                                                  *)

\* std::sort on unsigned: the ascending permutation of the array.
RECURSIVE Insert(_, _)
Insert(sorted, x) ==
  IF sorted = <<>> THEN <<x>>
  ELSE IF x <= sorted[1] THEN <<x>> \o sorted
  ELSE <<sorted[1]>> \o Insert(Tail(sorted), x)

RECURSIVE Sort(_)
Sort(s) == IF s = <<>> THEN <<>> ELSE Insert(Sort(Tail(s)), s[1])

\* Lines 138-149 and 229-238: the run-length loop from index i on, then the
\* bucket emitted after the loop.
RECURSIVE RunLengthFrom(_, _, _, _)
RunLengthFrom(s, i, previous, count) ==
  IF i > Len(s) THEN << <<previous, count>> >>
  ELSE IF s[i] # previous
       THEN << <<previous, count>> >> \o RunLengthFrom(s, i + 1, s[i], 1)
       ELSE RunLengthFrom(s, i + 1, previous, count + 1)

\* Lines 134-135 and 225-226: previous = a[0], count = 1, loop from index 1.
\* `first` is what the read of a[0] returned.
RunLength(first, s) == RunLengthFrom(s, 2, first, 1)

\* Lines 218-223: unsigned total_iterations += iterations_taken[i].
RECURSIVE TotalIterations(_)
TotalIterations(s) ==
  IF s = <<>> THEN 0 ELSE Wrap(TotalIterations(SubSeq(s, 1, Len(s) - 1)) + s[Len(s)])

\* Lines 219-223: max_iterations_taken, starting from 0.
RECURSIVE MaxIterationsTaken(_)
MaxIterationsTaken(s) ==
  IF s = <<>> THEN 0
  ELSE LET m == MaxIterationsTaken(Tail(s)) IN IF s[1] > m THEN s[1] ELSE m

\* Variant: the lower middle element.
MedianIndexLower(n) == (n - 1) \div 2

\* Line 242: iterations_taken[n/2], 0-based.
MedianIndex(n) == n \div 2

\* sprintf(buffer, "%s...", buffer, ...): source and destination overlap,
\* which the C library leaves undefined.  A plain vsprintf formats in place
\* and appends; a fortified __sprintf_chk empties the destination first, so
\* only the new text remains.  build.sprintf_overlap is what this build does.
SprintfOntoItself(buffer, token) ==
  IF build.sprintf_overlap = "append" THEN Append(buffer, token) ELSE <<token>>

RECURSIVE AccumulateBuckets(_, _)
AccumulateBuckets(buffer, buckets) ==
  IF buckets = <<>> THEN buffer
  ELSE AccumulateBuckets(
         SprintfOntoItself(buffer, <<"bucket", buckets[1][1], buckets[1][2]>>),
         Tail(buckets))

\* One PrintMessage per bucket (lines 140-141, 148-149, 204-207).
BucketLines(buckets) ==
  [i \in 1..Len(buckets) |-> <<"bucket", buckets[i][1], buckets[i][2]>>]

\* Variant: no bucket for the value n_functions + 1.
PossibleProbesShort(n_functions) == Wrap(n_functions + 1)

\* Line 193.
PossibleProbes(n_functions) == Wrap(n_functions + 2)

\* Lines 194-198 and 163-167: histogram[a[i]]++ over a zeroed array of `size`
\* cells; an index outside the array is left out here (see HistogramOverflow).
RECURSIVE HistogramLoop(_, _, _)
HistogramLoop(a, i, histogram) ==
  IF i > Len(a) THEN histogram
  ELSE HistogramLoop(a, i + 1,
         IF a[i] \in DOMAIN histogram
         THEN [histogram EXCEPT ![a[i]] = Wrap(@ + 1)] ELSE histogram)

DenseHistogram(a, size) == HistogramLoop(a, 1, [v \in 0..(size - 1) |-> 0])

HistogramOverflow(a, size) == \E i \in 1..Len(a) : a[i] < 0 \/ a[i] >= size

\* Lines 204-207: buckets 0 .. possible_probes - 1.
ProbeBuckets(probes, n_functions) ==
  LET possible_probes == PossibleProbes(n_functions)
      histogram == DenseHistogram(probes, possible_probes)
  IN  [k \in 1..possible_probes |-> <<k - 1, histogram[k - 1]>>]

\* Variant: a bucket is printed only when its count is not zero.
SlotsAssignedObserved(num_slots_available, size) ==
  SelectSeq([k \in 1..(size - 1) |->
               <<k, HistogramLoop(num_slots_available, 1,
                                  [v \in 0..(size - 1) |-> 0])[k]>>],
            LAMBDA b : b[2] # 0)

\* Lines 170-172: buckets 1 .. kHistogramSize - 1.
SlotsAssignedBuckets(num_slots_available, size) ==
  LET histogram == DenseHistogram(num_slots_available, size)
  IN  [k \in 1..(size - 1) |-> <<k, histogram[k]>>]

\* Lines 255-261: one line per occupied stash entry, by ascending index.
RECURSIVE StashLinesFrom(_, _)
StashLinesFrom(stash, i) ==
  IF i >= kStashSize THEN <<>>
  ELSE (IF get_key(stash[i + 1]) # kKeyEmpty
        THEN << <<"stash", i, get_key(stash[i + 1]), get_value(stash[i + 1])>> >>
        ELSE <<>>)
       \o StashLinesFrom(stash, i + 1)

\* Variant: vacant entries are printed too.
StashLinesAll(stash) ==
  [k \in 1..kStashSize |-> <<"stash", k - 1, get_key(stash[k]), get_value(stash[k])>>]

StashLines(stash) == StashLinesFrom(stash, 0)

----------------------------------------------------------------------------
(* The host thread.                                                         *)

NoArgs == [op |-> "none", n |-> 0, d |-> <<>>, table_size |-> 0, constants |-> <<>>,
           num_functions |-> 0]

\* The (multiplier, increment) pairs the callers pass.
ConstantPairs == {<<1, 0>>, <<2, 1>>, <<3, 2>>}

\* Stash entries: two keys, the vacant key, two values.
StashEntries == {make_entry(k, v) : k \in {1, 2, kKeyEmpty}, v \in {0, 1}}

\* The keys the callers pass.
KeyValues == {0, 1}

\* The iteration counts the build leaves: small ones and the largest two.
IterationCounts == {0, 1, 2, 3, UINT_MAX - 1, UINT_MAX}

\* The argument values the Call actions choose from.
KeyArrays == SeqsUpTo(KeyValues, MaxKeys)

ConstantArrays == SeqsUpTo(ConstantPairs, kMaxHashFunctions + 1)

IterationArrays == SeqsUpTo(IterationCounts, MaxN)

ProbeArrays == SeqsUpTo(0..(kMaxHashFunctions + 2), MaxN)

StashArrays == SeqsOfLen(StashEntries, kStashSize)

Init ==
  /\ build \in [count_slots : BOOLEAN, count_cycles : BOOLEAN,
                sprintf_overlap : {"append", "restart"}]
  /\ kHistogramSize = 0
  /\ pc = "idle"
  /\ args = NoArgs
  /\ kparams = NoKernel
  /\ threads = <<>>
  /\ d_num_hashing_in = <<>>
  /\ d_num_slots_available = <<>>
  /\ d_failed = 0
  /\ d_constants_live = FALSE
  /\ out = <<>>
  /\ fault = FALSE

\* Variant: cudaFree / cudaMemcpy return without waiting for the kernel.
DeviceUnsynchronized == TRUE

\* The host blocks in cudaFree / cudaMemcpy until the kernel launched before
\* them on the default stream has finished.
DeviceSynchronized == KernelComplete

\* A caller enters TakeHashFunctionStatistics (lines 70-74).
CallTakeHashFunctionStatistics(TableSizes, MaxFunctions) ==
  /\ pc = "idle"
  /\ \E keys \in KeyArrays, table_size \in TableSizes,
        constants \in {c \in ConstantArrays : Len(c) <= MaxFunctions} :
       args' = [op |-> "TakeHashFunctionStatistics", n |-> Len(keys), d |-> keys, table_size |-> table_size,
                constants |-> constants, num_functions |-> Len(constants)]
  /\ pc' = "THFS_launch"
  /\ UNCHANGED <<build, kHistogramSize, kparams, threads, d_num_hashing_in,
                 d_num_slots_available, d_failed, d_constants_live, out, fault>>

\* Lines 75-106: print the constants, allocate, launch the kernel.
THFS_Launch ==
  /\ pc = "THFS_launch"
  /\ out' = << <<"text", "Hash function constants: ">> >>
            \o [i \in 1..args.num_functions |->
                  <<"constant", args.constants[i][1], args.constants[i][2]>>]
  /\ d_num_hashing_in' = IF build.count_slots THEN Zeros(args.table_size) ELSE <<>>
  /\ d_num_slots_available' =
       IF build.count_cycles THEN [i \in 1..args.n |-> Uninit] ELSE <<>>
  /\ d_constants_live' = TRUE
  /\ kparams' = [keys |-> args.d, n_entries |-> args.n,
                 table_size |-> args.table_size, constants |-> args.constants,
                 num_functions |-> args.num_functions,
                 slots_ptr |-> build.count_cycles,
                 hashing_ptr |-> build.count_slots,
                 failed_ptr |-> FALSE]
  /\ threads' = Launched(args.n)
  /\ pc' = "THFS_free"
  /\ UNCHANGED <<build, kHistogramSize, args, d_failed, fault>>

\* Line 107: cudaFree(d_constants).
THFS_FreeConstants ==
  /\ pc = "THFS_free"
  /\ DeviceSynchronized
  /\ d_constants_live' = FALSE
  /\ pc' = "THFS_slots"
  /\ UNCHANGED <<build, kHistogramSize, args, kparams, threads, d_num_hashing_in,
                 d_num_slots_available, d_failed, out, fault>>

\* Lines 109-153: copy the counters back, sort, print the run-length
\* histogram.  With table_size = 0 the read of num_hashing_in[0] is past the
\* end of the array and returns whatever lies there.
THFS_SlotHistogram ==
  /\ pc = "THFS_slots"
  /\ IF build.count_slots
     THEN /\ DeviceSynchronized
          /\ \E garbage \in Garbage(args.table_size = 0) :
               LET num_hashing_in == Sort(d_num_hashing_in)
                   first == IF args.table_size = 0 THEN garbage
                            ELSE num_hashing_in[1]
               IN  out' = out
                          \o << <<"text", "Num items hashing into a slot:">> >>
                          \o BucketLines(RunLength(first, num_hashing_in))
          /\ fault' = (fault \/ args.table_size = 0)
     ELSE UNCHANGED <<out, fault>>
  /\ pc' = "THFS_keys"
  /\ UNCHANGED <<build, kHistogramSize, args, kparams, threads, d_num_hashing_in,
                 d_num_slots_available, d_failed, d_constants_live>>

\* Lines 155-178: copy the per-key counts back and print their histogram.
\* kHistogramSize is a function-local static: initialised by the first call
\* that reaches line 162, kept by every later one.  The line is accumulated
\* with sprintf(buffer, "%s...", buffer, ...).
THFS_KeyHistogram ==
  /\ pc = "THFS_keys"
  /\ IF build.count_cycles
     THEN /\ DeviceSynchronized
          /\ kHistogramSize' = IF kHistogramSize = 0 THEN args.num_functions + 1
                               ELSE kHistogramSize
          /\ out' = Append(out,
                      <<"line",
                        AccumulateBuckets(
                          << <<"text", "Slots assigned to each key: ">> >>,
                          SlotsAssignedBuckets(d_num_slots_available,
                                               kHistogramSize'))>>)
          /\ fault' = (fault \/ HistogramOverflow(d_num_slots_available,
                                                  kHistogramSize'))
     ELSE UNCHANGED <<kHistogramSize, out, fault>>
  /\ pc' = "done"
  /\ UNCHANGED <<build, args, kparams, threads, d_num_hashing_in,
                 d_num_slots_available, d_failed, d_constants_live>>

\* A caller enters OutputRetrievalStatistics (lines 182-185) with the probe
\* counts the retrieval kernel left on the device.
CallOutputRetrievalStatistics(MaxFunctions, Excess) ==
  /\ pc = "idle"
  /\ \E n_functions \in 0..MaxFunctions :
       \E probes \in {p \in ProbeArrays :
                        \A i \in 1..Len(p) : p[i] <= n_functions + 1 + Excess} :
         args' = [op |-> "OutputRetrievalStatistics", n |-> Len(probes),
                  d |-> probes, table_size |-> 0,
                  constants |-> <<>>, num_functions |-> n_functions]
  /\ pc' = "ORS"
  /\ UNCHANGED <<build, kHistogramSize, kparams, threads, d_num_hashing_in,
                 d_num_slots_available, d_failed, d_constants_live, out, fault>>

\* Lines 186-210.
OutputRetrievalStatistics ==
  /\ pc = "ORS"
  /\ out' = << <<"text", "Probes for retrieval: ">> >>
            \o BucketLines(ProbeBuckets(args.d, args.num_functions))
  /\ fault' = (fault \/ HistogramOverflow(args.d, PossibleProbes(args.num_functions)))
  /\ pc' = "done"
  /\ UNCHANGED <<build, kHistogramSize, args, kparams, threads, d_num_hashing_in,
                 d_num_slots_available, d_failed, d_constants_live>>

\* A caller enters OutputBuildStatistics (lines 212-213) with the iteration
\* counts the build kernel left on the device.
CallOutputBuildStatistics(MinN) ==
  /\ pc = "idle"
  /\ \E iterations \in IterationArrays :
       /\ Len(iterations) >= MinN
       /\ args' = [op |-> "OutputBuildStatistics", n |-> Len(iterations),
                   d |-> iterations, table_size |-> 0,
                   constants |-> <<>>, num_functions |-> 0]
  /\ pc' = "OBS"
  /\ UNCHANGED <<build, kHistogramSize, kparams, threads, d_num_hashing_in,
                 d_num_slots_available, d_failed, d_constants_live, out, fault>>

\* Lines 215-248.  With n = 0 the reads of iterations_taken[0], [n/2] and
\* [n-1] are past the end of a zero-length array and return whatever lies
\* there.  The histogram line is accumulated with
\* sprintf(buffer, "%s...", buffer, ...).
OutputBuildStatistics ==
  /\ pc = "OBS"
  /\ \E garbage0 \in Garbage(args.n = 0), garbage1 \in Garbage(args.n = 0) :
       LET n == args.n
           iterations_taken == Sort(args.d)
           at0 == IF n = 0 THEN garbage0 ELSE iterations_taken[1]
           median == IF n = 0 THEN garbage0
                     ELSE iterations_taken[MedianIndex(n) + 1]
           last == IF n = 0 THEN garbage1 ELSE iterations_taken[n]
           total_iterations == TotalIterations(iterations_taken)
       IN  out' = << <<"line",
                       AccumulateBuckets(<< <<"text", "Iterations taken:">> >>,
                                         RunLength(at0, iterations_taken))>>,
                     <<"total", total_iterations>>,
                     <<"avg_med_max", total_iterations, n, median, last>>,
                     <<"max", MaxIterationsTaken(iterations_taken)>> >>
  /\ fault' = (fault \/ args.n = 0)
  /\ pc' = "done"
  /\ UNCHANGED <<build, kHistogramSize, args, kparams, threads, d_num_hashing_in,
                 d_num_slots_available, d_failed, d_constants_live>>

\* A caller enters PrintStashContents (line 252) with a stash on the device.
CallPrintStashContents ==
  /\ pc = "idle"
  /\ \E stash \in StashArrays :
       args' = [op |-> "PrintStashContents", n |-> kStashSize, d |-> stash,
                table_size |-> 0,
                constants |-> <<>>, num_functions |-> 0]
  /\ pc' = "PSC"
  /\ UNCHANGED <<build, kHistogramSize, kparams, threads, d_num_hashing_in,
                 d_num_slots_available, d_failed, d_constants_live, out, fault>>

\* Lines 253-262.
PrintStashContents ==
  /\ pc = "PSC"
  /\ out' = StashLines(args.d)
  /\ pc' = "done"
  /\ UNCHANGED <<build, kHistogramSize, args, kparams, threads, d_num_hashing_in,
                 d_num_slots_available, d_failed, d_constants_live, fault>>

\* The host function returns; its locals and device buffers are gone.  The
\* static kHistogramSize stays.
Return ==
  /\ pc = "done"
  /\ ~fault
  /\ pc' = "idle"
  /\ args' = NoArgs
  /\ kparams' = NoKernel
  /\ threads' = <<>>
  /\ d_num_hashing_in' = <<>>
  /\ d_num_slots_available' = <<>>
  /\ d_failed' = 0
  /\ d_constants_live' = FALSE
  /\ out' = <<>>
  /\ UNCHANGED <<build, kHistogramSize, fault>>

\* The kernel launched on its own, each of its three outputs requested or
\* not (NULL); the counters zeroed and the flag cleared by the caller.
LaunchKernel ==
  /\ pc = "idle"
  /\ \E keys \in KeyArrays, table_size \in 1..MaxTableSize,
        constants \in {c \in ConstantArrays : Len(c) <= kMaxHashFunctions},
        slots_ptr \in BOOLEAN, hashing_ptr \in BOOLEAN, failed_ptr \in BOOLEAN :
       /\ kparams' = [keys |-> keys, n_entries |-> Len(keys),
                      table_size |-> table_size, constants |-> constants,
                      num_functions |-> Len(constants), slots_ptr |-> slots_ptr,
                      hashing_ptr |-> hashing_ptr, failed_ptr |-> failed_ptr]
       /\ threads' = Launched(Len(keys))
       /\ d_num_hashing_in' = IF hashing_ptr THEN Zeros(table_size) ELSE <<>>
       /\ d_num_slots_available' =
            IF slots_ptr THEN [i \in 1..Len(keys) |-> Uninit] ELSE <<>>
  /\ d_failed' = 0
  /\ d_constants_live' = TRUE
  /\ pc' = "kernel"
  /\ UNCHANGED <<build, kHistogramSize, args, out, fault>>

\* The caller waits for the grid.
JoinKernel ==
  /\ pc = "kernel"
  /\ KernelComplete
  /\ pc' = "done"
  /\ UNCHANGED <<build, kHistogramSize, args, kparams, threads, d_num_hashing_in,
                 d_num_slots_available, d_failed, d_constants_live, out, fault>>

KernelReturnsEarly == \E t \in DOMAIN threads : KernelReturnEarly(t)

KernelHashes == \E t \in DOMAIN threads : KernelHash(t)

KernelFinishes == \E t \in DOMAIN threads : KernelFinish(t)

----------------------------------------------------------------------------
(* Specifications.                                                          *)

\* The host functions called with the arguments their contracts allow.
Next ==
  \/ CallTakeHashFunctionStatistics(1..MaxTableSize, kMaxHashFunctions)
  \/ THFS_Launch
  \/ KernelReturnsEarly
  \/ KernelHashes
  \/ KernelFinishes
  \/ THFS_FreeConstants
  \/ THFS_SlotHistogram
  \/ THFS_KeyHistogram
  \/ CallOutputRetrievalStatistics(kMaxHashFunctions, 0)
  \/ OutputRetrievalStatistics
  \/ CallOutputBuildStatistics(1)
  \/ OutputBuildStatistics
  \/ CallPrintStashContents
  \/ PrintStashContents
  \/ Return

Spec == Init /\ [][Next]_vars

\* TakeHashFunctionStatistics called once in a fresh process.
NextAnalysis ==
  \/ CallTakeHashFunctionStatistics(1..MaxTableSize, kMaxHashFunctions)
  \/ THFS_Launch
  \/ KernelReturnsEarly
  \/ KernelHashes
  \/ KernelFinishes
  \/ THFS_FreeConstants
  \/ THFS_SlotHistogram
  \/ THFS_KeyHistogram

SpecAnalysis == Init /\ [][NextAnalysis]_vars

\* TakeHashFunctionStatistics called again and again in a build that defines
\* COUNT_HOW_MANY_HAVE_CYCLES alone.
InitKeyHistogram ==
  /\ Init
  /\ build.count_cycles
  /\ ~build.count_slots

SpecKeyHistogram == InitKeyHistogram /\ [][NextAnalysis \/ Return]_vars

\* The reports over arrays produced elsewhere, without the kernel.
NextReports ==
  \/ CallOutputRetrievalStatistics(kMaxHashFunctions, 0)
  \/ OutputRetrievalStatistics
  \/ CallOutputBuildStatistics(1)
  \/ OutputBuildStatistics
  \/ CallPrintStashContents
  \/ PrintStashContents
  \/ Return

SpecReports == Init /\ [][NextReports]_vars

\* The kernel alone, with every combination of its optional outputs.
NextKernel ==
  \/ LaunchKernel
  \/ KernelReturnsEarly
  \/ KernelHashes
  \/ KernelFinishes
  \/ JoinKernel
  \/ Return

InitKernel ==
  /\ Init
  /\ build = [count_slots |-> FALSE, count_cycles |-> FALSE,
              sprintf_overlap |-> "append"]

SpecKernel == InitKernel /\ [][NextKernel]_vars

\* The host functions called with any arguments their types allow.
NextUnchecked ==
  \/ CallTakeHashFunctionStatistics(0..MaxTableSize, kMaxHashFunctions + 1)
  \/ THFS_Launch
  \/ KernelReturnsEarly
  \/ KernelHashes
  \/ KernelFinishes
  \/ THFS_FreeConstants
  \/ THFS_SlotHistogram
  \/ THFS_KeyHistogram
  \/ CallOutputRetrievalStatistics(kMaxHashFunctions, 1)
  \/ OutputRetrievalStatistics
  \/ CallOutputBuildStatistics(0)
  \/ OutputBuildStatistics
  \/ CallPrintStashContents
  \/ PrintStashContents
  \/ Return

SpecUnchecked == Init /\ [][NextUnchecked]_vars

----------------------------------------------------------------------------
(* Properties.                                                              *)

\* The slots of a key, from the arguments alone.
SlotSet(key, constants, num_functions, table_size) ==
  {SlotOf(constants[i], key, table_size) : i \in 1..num_functions}

\* The slots of the key of thread t of the launched kernel.
SlotSetOf(t) ==
  SlotSet(kparams.keys[t], kparams.constants, kparams.num_functions,
          kparams.table_size)

\* Thread t had a key and has stored its results.
KeyDone(t) ==
  /\ t \in DOMAIN threads
  /\ t <= kparams.n_entries
  /\ threads[t].pc = "done"

BucketsOf(items) ==
  LET sel == SelectSeq(items, LAMBDA x : x[1] = "bucket")
  IN  [i \in 1..Len(sel) |-> <<sel[i][2], sel[i][3]>>]

BucketKeys(buckets) == [i \in 1..Len(buckets) |-> buckets[i][1]]

BucketCounts(buckets) == [i \in 1..Len(buckets) |-> buckets[i][2]]

StrictlyAscending(s) == \A i \in 1..(Len(s) - 1) : s[i] < s[i + 1]

\* C1 as claimed: for num_functions in [0, kMaxHashFunctions] the count stored
\* for a key is the number of distinct slots of the key and lies in
\* [1, num_functions].
C1_AsClaimed ==
  \A t \in DOMAIN threads :
    (KeyDone(t) /\ kparams.slots_ptr /\ kparams.table_size >= 1
       /\ kparams.num_functions \in 0..kMaxHashFunctions)
    => /\ d_num_slots_available[t] = Cardinality(SlotSetOf(t))
       /\ d_num_slots_available[t] \in 1..kparams.num_functions

\* C1: for every key, table_size >= 1 and num_functions in
\* [1, kMaxHashFunctions] the count the kernel stores for the key is the number
\* of distinct values among hash_i(key) mod table_size, i < num_functions, and
\* lies in [1, num_functions].
C1_DistinctSlotCount ==
  \A t \in DOMAIN threads :
    (KeyDone(t) /\ kparams.slots_ptr /\ kparams.table_size >= 1
       /\ kparams.num_functions \in 1..kMaxHashFunctions)
    => /\ d_num_slots_available[t] = Cardinality(SlotSetOf(t))
       /\ d_num_slots_available[t] \in 1..kparams.num_functions

\* A key whose first and third location coincide and whose second differs.
C1_Witness ==
  \E t \in DOMAIN threads :
    /\ KeyDone(t)
    /\ kparams.slots_ptr
    /\ kparams.num_functions = 3
    /\ threads[t].locations[1] = threads[t].locations[3]
    /\ threads[t].locations[1] # threads[t].locations[2]
    /\ d_num_slots_available[t] = 2

\* The number of (key, function) pairs that hash into slot s.
PairsInto(s) ==
  Cardinality({p \in (1..kparams.n_entries) \X (1..kparams.num_functions) :
                 SlotOf(kparams.constants[p[2]], kparams.keys[p[1]],
                        kparams.table_size) = s})

\* C2: with the per-slot counters collected and zeroed before the launch,
\* once every thread has returned each counter holds the number of
\* (key, function) pairs hashing into its slot, whatever the interleaving, and
\* the counters sum to n_keys * num_functions.
C2_NoLostIncrement ==
  (args.op = "TakeHashFunctionStatistics" /\ build.count_slots
     /\ pc \in {"THFS_free", "THFS_slots", "THFS_keys", "done"} /\ KernelComplete)
  => /\ \A s \in 0..(kparams.table_size - 1) :
          d_num_hashing_in[s + 1] = PairsInto(s)
     /\ SumSeq(d_num_hashing_in) = kparams.n_entries * kparams.num_functions

\* Two keys, one of which hashes twice into a slot the other one hits too.
C2_Witness ==
  /\ args.op = "TakeHashFunctionStatistics"
  /\ build.count_slots
  /\ pc = "THFS_free"
  /\ KernelComplete
  /\ kparams.n_entries = 2
  /\ kparams.num_functions = 2
  /\ \E s \in 0..(kparams.table_size - 1) : d_num_hashing_in[s + 1] = 3

\* Some key has fewer distinct slots than there are hash functions.
SomeKeyShort ==
  \E t \in 1..kparams.n_entries : Cardinality(SlotSetOf(t)) < kparams.num_functions

\* C3 as claimed: with the flag requested and cleared, once every thread has
\* returned the flag is set iff some key has fewer distinct slots than
\* num_functions.
C3_AsClaimed ==
  (pc \in {"kernel", "done"} /\ kparams.failed_ptr /\ KernelComplete)
  => (d_failed = 1 <=> SomeKeyShort)

\* C3: with the flag requested and cleared and num_functions in
\* [1, kMaxHashFunctions], once every thread has returned the flag is set iff
\* some key has fewer distinct slots than num_functions, whatever the
\* interleaving.
C3_FailureFlag ==
  (pc \in {"kernel", "done"} /\ kparams.failed_ptr /\ KernelComplete
     /\ kparams.num_functions \in 1..kMaxHashFunctions)
  => (d_failed = 1 <=> SomeKeyShort)

\* Two keys: the first has a collision, the second has none.
C3_Witness ==
  /\ pc = "done"
  /\ kparams.failed_ptr
  /\ KernelComplete
  /\ kparams.n_entries = 2
  /\ kparams.num_functions = 2
  /\ Cardinality(SlotSetOf(1)) = 1
  /\ Cardinality(SlotSetOf(2)) = 2
  /\ d_failed = 1

\* `buckets` is the run-length histogram of `source`: keys strictly ascending,
\* exactly the values of the source, each with its number of occurrences.
IsHistogramOf(buckets, source) ==
  /\ StrictlyAscending(BucketKeys(buckets))
  /\ Range(BucketKeys(buckets)) = Range(source)
  /\ \A i \in 1..Len(buckets) : buckets[i][2] = Occurrences(source, buckets[i][1])
  /\ SumSeq(BucketCounts(buckets)) = Len(source)

\* The buckets of the line the call accumulated in `buffer` and printed.
LineBuckets(item) == BucketsOf(item[2])

SlotHistogramPrinted ==
  /\ args.op = "TakeHashFunctionStatistics"
  /\ build.count_slots
  /\ pc \in {"THFS_keys", "done"}

BuildStatisticsPrinted == args.op = "OutputBuildStatistics" /\ pc = "done"

\* C4: for a non-empty source, the histogram printed for the per-slot loads
\* and the one printed for the build iteration counts list their buckets in
\* strictly ascending order, one bucket per distinct value of the source, each
\* with the number of occurrences of its value, the counts summing to the
\* length of the source.
C4_RunLengthHistograms ==
  /\ SlotHistogramPrinted => IsHistogramOf(BucketsOf(out), d_num_hashing_in)
  /\ BuildStatisticsPrinted => IsHistogramOf(LineBuckets(out[1]), args.d)

\* The part of C4 that holds in every build: the per-slot histogram, printed
\* bucket by bucket.
C4_SlotLoadHistogram ==
  SlotHistogramPrinted => IsHistogramOf(BucketsOf(out), d_num_hashing_in)

\* The part of C4 that holds where sprintf appends in place.
C4_BuildHistogramWhenAppending ==
  (BuildStatisticsPrinted /\ build.sprintf_overlap = "append")
  => IsHistogramOf(LineBuckets(out[1]), args.d)

\* The element of rank k (0-based) of d in ascending order.
OrderStatistic(d, k) ==
  CHOOSE v \in Range(d) :
    /\ Cardinality({i \in 1..Len(d) : d[i] < v}) <= k
    /\ k < Cardinality({i \in 1..Len(d) : d[i] <= v})

Largest(d) == CHOOSE m \in Range(d) : \A i \in 1..Len(d) : d[i] <= m

\* C5 as claimed: the total printed is the sum of all counts, the median the
\* element of rank floor(n/2), the maximum the largest count, and the two
\* maxima printed agree.
C5_AsClaimed ==
  BuildStatisticsPrinted
  => /\ out[2][2] = SumSeq(args.d)
     /\ out[3][4] = OrderStatistic(args.d, args.n \div 2)
     /\ out[3][5] = Largest(args.d)
     /\ out[4][2] = out[3][5]

\* C5: for a non-empty sequence of n iteration counts the total printed is the
\* sum of the counts reduced modulo the range of `unsigned`, the median is the
\* element of rank floor(n/2) of the ascending sequence, the maximum is the
\* largest count, and the maximum of the Avg/Med/Max line equals the
\* separately tracked "Max iterations".
C5_BuildSummary ==
  BuildStatisticsPrinted
  => /\ out[2][2] = SumSeq(args.d) % (UINT_MAX + 1)
     /\ out[3][2] = out[2][2]
     /\ out[3][3] = args.n
     /\ out[3][4] = OrderStatistic(args.d, args.n \div 2)
     /\ out[3][5] = Largest(args.d)
     /\ out[4][2] = out[3][5]

\* An even number of counts with two different middle elements, given
\* unsorted.
C5_Witness ==
  /\ BuildStatisticsPrinted
  /\ args.d = <<3, UINT_MAX>>
  /\ out[2][2] = 2
  /\ out[3][4] = UINT_MAX
  /\ out[4][2] = UINT_MAX

RetrievalStatisticsPrinted == args.op = "OutputRetrievalStatistics" /\ pc = "done"

\* C6: for n_queries >= 0 probe counts, each in [0, num_functions + 1], the
\* retrieval histogram has exactly num_functions + 2 buckets, keyed
\* 0 .. num_functions + 1 in ascending order, zero counts included; bucket v
\* holds the number of queries with probe count v and the counts sum to
\* n_queries.
C6_DenseProbeHistogram ==
  RetrievalStatisticsPrinted
  => LET buckets == BucketsOf(out)
     IN  /\ Len(buckets) = args.num_functions + 2
         /\ \A i \in 1..Len(buckets) :
              /\ buckets[i][1] = i - 1
              /\ buckets[i][2] = Occurrences(args.d, i - 1)
         /\ SumSeq(BucketCounts(buckets)) = args.n

\* Scenario 5 without its last query: the top bucket is printed with count 0.
C6_Witness ==
  /\ RetrievalStatisticsPrinted
  /\ args.num_functions = 2
  /\ args.d = <<0, 1, 1>>
  /\ BucketsOf(out) = << <<0, 1>>, <<1, 2>>, <<2, 0>>, <<3, 0>> >>

KeyHistogramPrinted ==
  /\ args.op = "TakeHashFunctionStatistics"
  /\ build.count_cycles
  /\ pc = "done"

\* The keys whose stored count is v.
KeysWithCount(v) == {t \in 1..args.n : d_num_slots_available[t] = v}

StashPrinted == args.op = "PrintStashContents" /\ pc = "done"

\* The indices of the occupied entries of the stash, from the encoding.
Occupied(stash) ==
  {i \in 0..(kStashSize - 1) :
     \E k \in Unsigned \ {kKeyEmpty}, v \in Unsigned : stash[i + 1] = make_entry(k, v)}

\* C8: PrintStashContents prints one (index, key, value) line for each index
\* whose entry has a key other than kKeyEmpty and none for a vacant entry, by
\* strictly ascending index, and leaves the snapshot as it was.
C8_StashDump ==
  /\ [](StashPrinted
        => /\ StrictlyAscending([i \in 1..Len(out) |-> out[i][2]])
           /\ {out[i][2] : i \in 1..Len(out)} = Occupied(args.d)
           /\ \A i \in 1..Len(out) :
                /\ out[i][1] = "stash"
                /\ out[i][3] # kKeyEmpty
                /\ args.d[out[i][2] + 1] = make_entry(out[i][3], out[i][4]))
  /\ [][pc = "PSC" => args' = args]_vars

\* Scenario 4 at the size of the model: a vacant entry between two occupied
\* ones.
C8_Witness ==
  /\ StashPrinted
  /\ args.d = <<make_entry(1, 0), make_entry(kKeyEmpty, 1), make_entry(2, 1)>>
  /\ out = << <<"stash", 0, 1, 0>>, <<"stash", 2, 2, 1>> >>

\* The call in progress was given arguments its contract excludes.
Malformed ==
  \/ /\ args.op = "TakeHashFunctionStatistics"
     /\ args.num_functions > kMaxHashFunctions \/ args.table_size = 0
  \/ /\ args.op = "OutputBuildStatistics"
     /\ args.n = 0

\* C9: a call with num_functions > kMaxHashFunctions, with table_size = 0 or
\* with n = 0 ends without printing statistics and without an access past the
\* end of an array.
C9_MalformedRejected ==
  Malformed => /\ ~fault
               /\ \A i \in 1..Len(out) : out[i][1] \in {"text", "constant"}

====
